---- MODULE Spec2Model ----
(***************************************************************************)
(* Model of VideoUploadComponent (src/app/create-post/                     *)
(* VideoUploadComponent.tsx): the component state, the user handlers and   *)
(* the promise chains of processSocialMediaPost,                           *)
(* processSingleSocialMediaPost and processCarouselSocialMediaPost.         *)
(*                                                                         *)
(* Every handler and every promise continuation is one action (JavaScript  *)
(* runs each of them to completion).  A remote call is issued by the       *)
(* action that runs the code calling it and is answered by a later action  *)
(* whose outcome is chosen nondeterministically.  A closure reads the      *)
(* props and state of the render in which the form was submitted, so each  *)
(* post carries a snapshot of files and of the two selections.             *)
(***************************************************************************)
EXTENDS Integers, Sequences, FiniteSets, TLC

\* ---------------------------------------------------------------- bounds
MaxFiles == 2
MaxSelected == 2
MaxSubmits == 1
\* Status poller: container ids in one polled set, and the largest attempt
\* budget a call is given.
MaxPolled == 2
MaxAttempts == 3

\* ------------------------------------------------------------ props, data
\* The rows handed to the component.  A row has its own primary key (id)
\* next to the Instagram business account id.
InstagramAccounts ==
    { [id |-> "row1", instagram_business_account_id |-> "ig1"],
      [id |-> "row2", instagram_business_account_id |-> "ig2"] }

YoutubeChannels == { [id |-> "yt1"], [id |-> "yt2"] }

\* What handleFileChange can append: a file with its validation message.
\* The name of a file is kept as its pieces between the dots.
FileEntries ==
    { [type |-> "image/jpeg", errorMessage |-> "",
       name |-> << "photo", "jpeg" >>],
      [type |-> "video/mp4", errorMessage |-> "",
       name |-> << "clip", "v2", "mp4" >>],
      [type |-> "video/mp4", errorMessage |-> "File error",
       name |-> << "big", "mp4" >>] }

\* The userId prop.
UserId == "user1"

\* maxLength of the title input.
MaxTitleLength == 100

\* Lengths of the text a user types or pastes into the title input.
TitleLengths == {0, 5, 101}

Outcomes == {"ok", "fail"}
PollOutcomes == {"ok", "timeout", "remoteError"}
StorageOutcomes == {"ok", "error", "nopath"}
FetchOutcomes == {"ok", "notOk", "reject"}

\* Media ids publishInstagramMediaContainer can resolve to.
MediaIds == {"media1", "media2"}

VARIABLES
    selectedInstagramAccounts,
    selectedYoutubeChannels,
    files,
    instagramAccountIdToProcessingState,
    youtubeChannelIdToProcessingState,
    youtubeTitle,
    posts,
    wfs,
    poll

vars == << selectedInstagramAccounts, selectedYoutubeChannels, files,
           instagramAccountIdToProcessingState,
           youtubeChannelIdToProcessingState, youtubeTitle, posts, wfs,
           poll >>

\* ---------------------------------------------------------------- helpers
\* prev.filter((entry) => entry.file !== file) for the file at position i.
RemoveAt(s, i) ==
    [j \in 1..(Len(s) - 1) |-> IF j < i THEN s[j] ELSE s[j + 1]]

\* useState({}) of the two processing-state mappings.
EmptyMap == [k \in {} |-> "processing"]

\* setInstagramAccountIdToProcessingState({[key]: value}) and its YouTube
\* twin: the setter is handed a new object holding the one key, and React
\* makes that object the state.
SetProcessingState(prev, key, value) == [k \in {key} |-> value]

\* The forEach loops that mark each selected destination "processing".
RECURSIVE MarkProcessing(_, _)
MarkProcessing(map, keys) ==
    IF keys = << >> THEN map
    ELSE MarkProcessing(SetProcessingState(map, Head(keys), "processing"),
                        Tail(keys))

\* file.type.includes("video") ? "video" : "image"
PostType(file) == IF file.type \in {"video/mp4", "video/quicktime"}
                  THEN "video" ELSE "image"

\* Identifiers handed out by the provider: one per container of a workflow.
\* Variant in which the item containers are created once and their ids
\* handed to every destination.
ItemContainerIdShared(w, i) == << 1, i >>

ItemContainerId(w, i) == << w, i >>
AggregateContainerId(w) == << w, 0 >>

\* One remote call: the operation, the post and the file index it is about,
\* the isCarouselItem flag and the container ids handed to it.  A container
\* create also carries the postType of its file.
Call(op, post, item, carouselItem, ids) ==
    [op |-> op, post |-> post, item |-> item, postType |-> "",
     carouselItem |-> carouselItem, ids |-> ids, mediaId |-> ""]

CreateCall(post, item, file, carouselItem) ==
    [Call("createInstagramContainer", post, item, carouselItem, << >>)
        EXCEPT !.postType = PostType(file)]

\* The status poller taken on its own: the component is not inside one of
\* its calls.
NoPoll == [ids |-> {}, maxAttempts |-> 0, round |-> 0,
           statuses |-> << >>, result |-> "none"]

\* ------------------------------------------------------------------- Init
Init ==
    /\ selectedInstagramAccounts = << >>
    /\ selectedYoutubeChannels = << >>
    /\ files = << >>
    /\ instagramAccountIdToProcessingState = EmptyMap
    /\ youtubeChannelIdToProcessingState = EmptyMap
    /\ youtubeTitle = 0
    /\ posts = << >>
    /\ wfs = << >>
    /\ poll = NoPoll

\* ------------------------------------------------------------ user actions
\* The user composes the post (files, destinations, title) and then submits
\* it, up to MaxSubmits times: the composition is not edited after the first
\* submit.  The closures of a submitted post read their own snapshot, so an
\* edit made later could only change what a following submit would read.
Composing == posts = << >>

NumSelected == Len(selectedInstagramAccounts) + Len(selectedYoutubeChannels)

\* onClick of an Instagram account button.
ToggleInstagramAccount(account) ==
    /\ Composing
    /\ IF \E j \in DOMAIN selectedInstagramAccounts :
              selectedInstagramAccounts[j].id
                  = account.instagram_business_account_id
       THEN selectedInstagramAccounts' =
                SelectSeq(selectedInstagramAccounts,
                          LAMBDA acc :
                              acc.id # account.instagram_business_account_id)
       ELSE /\ NumSelected < MaxSelected
            /\ selectedInstagramAccounts' =
                   Append(selectedInstagramAccounts, account)
    /\ UNCHANGED << poll, selectedYoutubeChannels, files,
                    instagramAccountIdToProcessingState,
                    youtubeChannelIdToProcessingState, youtubeTitle, posts,
                    wfs >>

\* onClick of a YouTube channel button.
ToggleYoutubeChannel(channel) ==
    /\ Composing
    /\ IF \E j \in DOMAIN selectedYoutubeChannels :
              selectedYoutubeChannels[j].id = channel.id
       THEN selectedYoutubeChannels' =
                SelectSeq(selectedYoutubeChannels,
                          LAMBDA acc : acc.id # channel.id)
       ELSE /\ NumSelected < MaxSelected
            /\ selectedYoutubeChannels' =
                   Append(selectedYoutubeChannels, channel)
    /\ UNCHANGED << poll, selectedInstagramAccounts, files,
                    instagramAccountIdToProcessingState,
                    youtubeChannelIdToProcessingState, youtubeTitle, posts,
                    wfs >>

\* handleFileChange: one picked file ends up appended with its message.
AddFile(entry) ==
    /\ Composing
    /\ Len(files) < MaxFiles
    /\ files' = Append(files, entry)
    /\ UNCHANGED << poll, selectedInstagramAccounts, selectedYoutubeChannels,
                    instagramAccountIdToProcessingState,
                    youtubeChannelIdToProcessingState, youtubeTitle, posts,
                    wfs >>

\* onRemove of a shown file (every File object is a distinct object, so the
\* filter drops exactly the entry at that position).
RemoveFile(i) ==
    /\ Composing
    /\ i \in DOMAIN files
    /\ files' = RemoveAt(files, i)
    /\ UNCHANGED << poll, selectedInstagramAccounts, selectedYoutubeChannels,
                    instagramAccountIdToProcessingState,
                    youtubeChannelIdToProcessingState, youtubeTitle, posts,
                    wfs >>

\* The input keeps at most maxLength characters of what is entered.
Truncated(len) == IF len > MaxTitleLength THEN MaxTitleLength ELSE len

\* setYoutubeTitle through the title input, shown while a channel is selected.
SetYoutubeTitle(len) ==
    /\ Composing
    /\ Len(selectedYoutubeChannels) > 0
    /\ Truncated(len) # youtubeTitle
    /\ youtubeTitle' = Truncated(len)
    /\ UNCHANGED << poll, selectedInstagramAccounts, selectedYoutubeChannels, files,
                    instagramAccountIdToProcessingState,
                    youtubeChannelIdToProcessingState, posts, wfs >>

\* Variant of the disabled expression without the condition on the files.
ButtonDisabledIgnoringFiles ==
    \/ (Len(selectedInstagramAccounts) = 0 /\ Len(selectedYoutubeChannels) = 0)
    \/ \E i \in DOMAIN files : files[i].errorMessage # ""
    \/ (Len(selectedYoutubeChannels) > 0 /\ youtubeTitle = 0)
    \/ (Len(selectedYoutubeChannels) > 0 /\ youtubeTitle > 100)
    \/ \E k \in DOMAIN instagramAccountIdToProcessingState :
           instagramAccountIdToProcessingState[k] = "processing"
    \/ \E k \in DOMAIN youtubeChannelIdToProcessingState :
           youtubeChannelIdToProcessingState[k] = "processing"

\* Variant of the disabled expression without the two title conditions.
ButtonDisabledIgnoringTitle ==
    \/ (Len(selectedInstagramAccounts) = 0 /\ Len(selectedYoutubeChannels) = 0)
    \/ Len(files) = 0
    \/ \E i \in DOMAIN files : files[i].errorMessage # ""
    \/ \E k \in DOMAIN instagramAccountIdToProcessingState :
           instagramAccountIdToProcessingState[k] = "processing"
    \/ \E k \in DOMAIN youtubeChannelIdToProcessingState :
           youtubeChannelIdToProcessingState[k] = "processing"

\* The disabled expression of the submit button.
ButtonDisabled ==
    \/ (Len(selectedInstagramAccounts) = 0 /\ Len(selectedYoutubeChannels) = 0)
    \/ Len(files) = 0
    \/ \E i \in DOMAIN files : files[i].errorMessage # ""
    \/ (Len(selectedYoutubeChannels) > 0 /\ youtubeTitle = 0)
    \/ (Len(selectedYoutubeChannels) > 0 /\ youtubeTitle > 100)
    \/ \E k \in DOMAIN instagramAccountIdToProcessingState :
           instagramAccountIdToProcessingState[k] = "processing"
    \/ \E k \in DOMAIN youtubeChannelIdToProcessingState :
           youtubeChannelIdToProcessingState[k] = "processing"

\* processSocialMediaPost, up to the pending createSocialMediaPost call.
Submit ==
    /\ ~ButtonDisabled
    /\ Len(posts) < MaxSubmits
    /\ posts' = Append(posts,
                       [pc |-> "createPost",
                        files |-> files,
                        accounts |-> selectedInstagramAccounts,
                        channels |-> selectedYoutubeChannels,
                        title |-> youtubeTitle,
                        uploads |-> << >>,
                        uploadOrder |-> << >>,
                        filePaths |-> << >>,
                        uploadCalls |-> << >>,
                        storage |-> << >>,
                        insert |-> << >>,
                        result |-> "pending",
                        unhandled |-> FALSE])
    /\ UNCHANGED << poll, selectedInstagramAccounts, selectedYoutubeChannels, files,
                    instagramAccountIdToProcessingState,
                    youtubeChannelIdToProcessingState, youtubeTitle, wfs >>

\* ------------------------------------------------ post creation and upload
SetPost(p, rec) == [posts EXCEPT ![p] = rec]

\* The uploads started for a post: processSingleSocialMediaPost uploads
\* files[0] with index 0, processCarouselSocialMediaPost maps over all files.
StartUploads(post) == [i \in 1..Len(post.files) |-> "storage"]

\* Variant that leaves the index out of the path.
UploadPathWithoutIndex(p, index, file) ==
    [userId |-> UserId, postId |-> p, index |-> 0,
     extension |-> file.name[Len(file.name)]]

\* filePath of uploadSocialMediaPostFile:
\* `${userId}/${postId}/${index}.${file.name.split(".").pop()}`.
UploadPath(p, index, file) ==
    [userId |-> UserId, postId |-> p, index |-> index,
     extension |-> file.name[Len(file.name)]]

\* Variant that issues the uploads without the id of the created post.
UploadCallsWithoutPostId(p, post) ==
    [i \in 1..Len(post.files) |-> UploadPath(0, i - 1, post.files[i])]

\* The storage uploads the started path issues, one per file it maps over.
UploadCalls(p, post) ==
    [i \in 1..Len(post.files) |-> UploadPath(p, i - 1, post.files[i])]

\* A workflow records, next to its position in the chain (pc), what the
\* claims talk about: the calls it issued, the step that failed, whether a
\* rejection went unhandled, the containers a status check reported ready,
\* the media id its publish returned, the entry its destination had when
\* its first call was issued and the order in which its creates settled.
\*
\* A new workflow of one Instagram account in the single-item path: the
\* account is marked and createInstagramContainer is called.
NewSingleWorkflowAsCarouselItem(p, account) ==
    [post |-> p, platform |-> "instagram",
     dest |-> account.instagram_business_account_id,
     carousel |-> FALSE, pc |-> "create", creates |-> << "pending" >>,
     calls |-> << CreateCall(p, 0, posts[p].files[1], TRUE) >>,
     failed |-> "none", unhandled |-> FALSE,
     ready |-> {}, mediaId |-> "", stateAtStart |-> "absent",
     order |-> << >>]

NewSingleWorkflow(p, account) ==
    [post |-> p, platform |-> "instagram",
     dest |-> account.instagram_business_account_id,
     carousel |-> FALSE, pc |-> "create", creates |-> << "pending" >>,
     calls |-> << CreateCall(p, 0, posts[p].files[1], FALSE) >>,
     failed |-> "none", unhandled |-> FALSE,
     ready |-> {}, mediaId |-> "", stateAtStart |-> "absent",
     order |-> << >>]

\* Variant in which the list is filled in the order the uploads complete;
\* the upload that resumes the path is the one not yet in uploadOrder.
FilePathsByCompletion(post) ==
    LET n == Len(post.files)
        seen == { post.uploadOrder[k] : k \in DOMAIN post.uploadOrder }
        last == CHOOSE i \in 1..n : i \notin seen
        ord == Append(post.uploadOrder, last)
    IN  [k \in 1..n |->
            [filePath |-> ord[k] - 1,
             postType |-> PostType(post.files[ord[k]])]]

\* filePaths: what the Promise.all over files.map resolves to, one
\* {filePath, postType} per file at the position of the file; a path is
\* known by the index it was uploaded under.
FilePaths(post) ==
    [i \in 1..Len(post.files) |->
        [filePath |-> i - 1, postType |-> PostType(post.files[i])]]

\* A new workflow of one Instagram account in the carousel path: one
\* createInstagramContainer call per uploaded file, all issued at once.
NewCarouselWorkflow(p, account, n) ==
    [post |-> p, platform |-> "instagram",
     dest |-> account.instagram_business_account_id,
     carousel |-> TRUE, pc |-> "create",
     creates |-> [i \in 1..n |-> "pending"],
     calls |-> [i \in 1..n |->
                   [Call("createInstagramContainer", p,
                         FilePaths(posts[p])[i].filePath, TRUE, << >>)
                      EXCEPT !.postType = FilePaths(posts[p])[i].postType]],
     failed |-> "none", unhandled |-> FALSE,
     ready |-> {}, mediaId |-> "", stateAtStart |-> "absent",
     order |-> << >>]

\* A new workflow of one YouTube channel: the fetch of /api/youtube/post.
NewYoutubeWorkflow(p, channel) ==
    [post |-> p, platform |-> "youtube", dest |-> channel.id,
     carousel |-> FALSE, pc |-> "fetch", creates |-> << >>,
     calls |-> << Call("fetch", p, 0, FALSE, << >>) >>,
     failed |-> "none", unhandled |-> FALSE,
     ready |-> {}, mediaId |-> "", stateAtStart |-> "absent",
     order |-> << >>]

\* The entry of the j-th destination of a forEach at the moment its first
\* remote call is issued: the setter calls of the destinations up to and
\* including the j-th have been made.
StateAtIssue(map, keys, j) ==
    LET m == MarkProcessing(map, SubSeq(keys, 1, j)) IN
    IF keys[j] \in DOMAIN m THEN m[keys[j]] ELSE "absent"

AccountIds(post) ==
    [j \in 1..Len(post.accounts) |->
        post.accounts[j].instagram_business_account_id]

ChannelIds(post) == [j \in 1..Len(post.channels) |-> post.channels[j].id]

\* The synchronous rest of processSingleSocialMediaPost after the upload.
LaunchSingle(p) ==
    LET post == posts[p] IN
    /\ instagramAccountIdToProcessingState' =
           MarkProcessing(instagramAccountIdToProcessingState,
                          AccountIds(post))
    /\ youtubeChannelIdToProcessingState' =
           MarkProcessing(youtubeChannelIdToProcessingState, ChannelIds(post))
    /\ wfs' = wfs
              \o [j \in 1..Len(post.accounts) |->
                     [NewSingleWorkflow(p, post.accounts[j])
                        EXCEPT !.stateAtStart =
                          StateAtIssue(instagramAccountIdToProcessingState,
                                       AccountIds(post), j)]]
              \o [j \in 1..Len(post.channels) |->
                     [NewYoutubeWorkflow(p, post.channels[j])
                        EXCEPT !.stateAtStart =
                          StateAtIssue(youtubeChannelIdToProcessingState,
                                       ChannelIds(post), j)]]

\* The synchronous rest of processCarouselSocialMediaPost after the uploads.
LaunchCarousel(p) ==
    LET post == posts[p] IN
    /\ instagramAccountIdToProcessingState' =
           MarkProcessing(instagramAccountIdToProcessingState,
                          AccountIds(post))
    /\ youtubeChannelIdToProcessingState' = youtubeChannelIdToProcessingState
    /\ wfs' = wfs
              \o [j \in 1..Len(post.accounts) |->
                     [NewCarouselWorkflow(p, post.accounts[j],
                                          Len(post.files))
                        EXCEPT !.stateAtStart =
                          StateAtIssue(instagramAccountIdToProcessingState,
                                       AccountIds(post), j)]]

\* createSocialMediaPost settles; on success the .then callback picks the
\* path from files.length and the chosen function starts its uploads.  The
\* callback does not await or return the path's promise, so the chain that
\* processSocialMediaPost builds (result) fulfils as soon as the uploads
\* have been started; it rejects only when createSocialMediaPost does.
CreatePostReturn(p, outcome) ==
    /\ p \in DOMAIN posts
    /\ posts[p].pc = "createPost"
    /\ posts' =
           IF outcome = "fail"
           THEN SetPost(p, [posts[p] EXCEPT !.pc = "done",
                                            !.result = "rejected",
                                            !.unhandled = TRUE])
           ELSE IF Len(posts[p].files) >= 1
           THEN SetPost(p, [posts[p] EXCEPT !.pc = "upload",
                                            !.result = "fulfilled",
                                            !.uploads = StartUploads(posts[p]),
                                            !.uploadCalls =
                                                UploadCalls(p, posts[p]),
                                            !.storage =
                                                [i \in DOMAIN posts[p].files
                                                   |-> "pending"],
                                            !.insert =
                                                [i \in DOMAIN posts[p].files
                                                   |-> "none"]])
           ELSE SetPost(p, [posts[p] EXCEPT !.pc = "done",
                                            !.result = "fulfilled"])
    /\ UNCHANGED << poll, selectedInstagramAccounts, selectedYoutubeChannels, files,
                    instagramAccountIdToProcessingState,
                    youtubeChannelIdToProcessingState, youtubeTitle, wfs >>

\* uploadSocialMediaPostFile throws: the first throw rejects the path's
\* promise, which nothing awaits or catches.
UploadThrows(p, i) ==
    [posts[p] EXCEPT !.uploads[i] = "failed",
                     !.pc = "done",
                     !.unhandled = (posts[p].pc = "upload") \/ @]

\* Variant that goes on when the storage answers without a path.
StorageSucceededUnlessError(outcome) == outcome # "error"

\* The storage write succeeded: no uploadError and a path in the response.
StorageSucceeded(outcome) == outcome = "ok"

\* supabase.storage.upload settles for file i of post p.
UploadStorageReturn(p, i, outcome) ==
    /\ p \in DOMAIN posts
    /\ i \in DOMAIN posts[p].uploads
    /\ posts[p].uploads[i] = "storage"
    /\ posts' = IF StorageSucceeded(outcome)
                THEN SetPost(p, [posts[p] EXCEPT !.uploads[i] = "insert",
                                                 !.storage[i] = outcome,
                                                 !.insert[i] = "pending"])
                ELSE SetPost(p, [UploadThrows(p, i)
                                   EXCEPT !.storage[i] = outcome])
    /\ UNCHANGED << poll, selectedInstagramAccounts, selectedYoutubeChannels, files,
                    instagramAccountIdToProcessingState,
                    youtubeChannelIdToProcessingState, youtubeTitle, wfs >>

\* Variant that resumes as soon as one upload has completed.
AnyUploaded(uploads) == \E i \in DOMAIN uploads : uploads[i] = "done"

AllUploaded(uploads) == \A i \in DOMAIN uploads : uploads[i] = "done"

\* Variant with the semantics of Promise.allSettled: the path resumes once
\* every upload has settled, rejected ones included.
ResumesWhenSettled(p, ups) ==
    \A i \in DOMAIN ups : ups[i] \in {"done", "failed"}

\* await Promise.all(files.map(...)) fulfils: every upload has returned its
\* path and none has rejected before.
Resumes(p, ups) == AllUploaded(ups) /\ posts[p].pc = "upload"

\* The insert into social-media-post-media-files settles for file i; the
\* last successful one resumes the awaiting path, which launches the
\* workflows in the same turn.
UploadInsertReturn(p, i, outcome) ==
    /\ p \in DOMAIN posts
    /\ i \in DOMAIN posts[p].uploads
    /\ posts[p].uploads[i] = "insert"
    /\ LET ups == [posts[p].uploads EXCEPT ![i] = "done"] IN
       IF outcome # "ok"
       THEN /\ posts' = SetPost(p, [UploadThrows(p, i)
                                      EXCEPT !.insert[i] = outcome])
            /\ UNCHANGED << instagramAccountIdToProcessingState,
                            youtubeChannelIdToProcessingState, wfs >>
       ELSE IF Resumes(p, ups)
       THEN /\ posts' = SetPost(p, [posts[p] EXCEPT
                               !.uploads = ups,
                               !.insert[i] = outcome,
                               !.uploadOrder = Append(@, i),
                               !.filePaths = IF Len(posts[p].files) = 1
                                             THEN << >>
                                             ELSE FilePaths(posts[p]),
                               !.pc = "launched"])
            /\ IF Len(posts[p].files) = 1
               THEN LaunchSingle(p)
               ELSE LaunchCarousel(p)
       ELSE /\ posts' = SetPost(p, [posts[p] EXCEPT
                               !.uploads = ups,
                               !.insert[i] = outcome,
                               !.uploadOrder = Append(@, i)])
            /\ UNCHANGED << instagramAccountIdToProcessingState,
                            youtubeChannelIdToProcessingState, wfs >>
    /\ UNCHANGED << poll, selectedInstagramAccounts, selectedYoutubeChannels, files,
                    youtubeTitle >>

\* ------------------------------------------------------ Instagram workflows
SetWf(w, rec) == [wfs EXCEPT ![w] = rec]

IsWorkflow(w, platform, carousel, pc) ==
    /\ w \in DOMAIN wfs
    /\ wfs[w].platform = platform
    /\ wfs[w].carousel = carousel
    /\ wfs[w].pc = pc

ItemContainerIdsFirstOnly(w) == << ItemContainerId(w, 1) >>

\* instagramCarouselMediaContainerIds: what the Promise.all of the creates
\* resolves to, one id per file in the order of the files.
ItemContainerIds(w) ==
    [i \in 1..Len(wfs[w].creates) |-> ItemContainerId(w, i)]

\* The .catch at the end of an Instagram chain: the account is set to
\* "error" and the chain ends.
CatchError(w, step) ==
    /\ instagramAccountIdToProcessingState' =
           SetProcessingState(instagramAccountIdToProcessingState,
                              wfs[w].dest, "error")
    /\ wfs' = SetWf(w, [wfs[w] EXCEPT !.pc = "done", !.failed = step])

\* A rejection no handler is attached to: nothing is written.
Unhandled(w, step) ==
    /\ wfs' = SetWf(w, [wfs[w] EXCEPT !.pc = "done", !.failed = step,
                                      !.unhandled = TRUE])
    /\ UNCHANGED instagramAccountIdToProcessingState

\* The .then after publishInstagramMediaContainer, the same in both paths:
\* saveInstagramId is called with the media id the publish resolved to and
\* the id of the post, its promise is dropped, and the account is set to
\* "posted".
SaveCall(post, instagramMediaId) ==
    [Call("saveInstagramId", post, 0, FALSE, << >>)
        EXCEPT !.mediaId = instagramMediaId]

SaveAndMarkPostedDroppingId(w, instagramMediaId) ==
    /\ instagramAccountIdToProcessingState' =
           SetProcessingState(instagramAccountIdToProcessingState,
                              wfs[w].dest, "posted")
    /\ wfs' = SetWf(w, [wfs[w] EXCEPT
                  !.pc = "persist",
                  !.mediaId = instagramMediaId,
                  !.calls = Append(@, SaveCall(wfs[w].post, ""))])

SaveAndMarkPosted(w, instagramMediaId) ==
    /\ instagramAccountIdToProcessingState' =
           SetProcessingState(instagramAccountIdToProcessingState,
                              wfs[w].dest, "posted")
    /\ wfs' = SetWf(w, [wfs[w] EXCEPT
                  !.pc = "persist",
                  !.mediaId = instagramMediaId,
                  !.calls = Append(@, SaveCall(wfs[w].post,
                                               instagramMediaId))])

\* The containers the pending checkInstagramContainerStatus call was handed
\* (containerIds): the ones a fulfilled check has reported ready.
PolledIds(w) ==
    LET ids == wfs[w].calls[Len(wfs[w].calls)].ids
    IN  { ids[k] : k \in DOMAIN ids }

\* Single path: createInstagramContainer settles.
SingleCreateReturn(w, outcome) ==
    /\ IsWorkflow(w, "instagram", FALSE, "create")
    /\ IF outcome = "ok"
       THEN /\ wfs' = SetWf(w, [wfs[w] EXCEPT
                  !.pc = "poll",
                  !.creates = << "ok" >>,
                  !.calls = Append(@, Call("checkInstagramContainerStatus",
                                           wfs[w].post, 0, FALSE,
                                           << ItemContainerId(w, 1) >>))])
            /\ UNCHANGED instagramAccountIdToProcessingState
       ELSE CatchError(w, "create")
    /\ UNCHANGED << poll, selectedInstagramAccounts, selectedYoutubeChannels, files,
                    youtubeChannelIdToProcessingState, youtubeTitle, posts >>

\* Single path: checkInstagramContainerStatus settles.  Its .then callback
\* calls publishInstagramMediaContainer without returning the promise, so
\* the outer chain, and with it the .catch, is finished here.
SinglePollReturnIgnoringStatus(w, outcome) ==
    /\ IsWorkflow(w, "instagram", FALSE, "poll")
    /\ wfs' = SetWf(w, [wfs[w] EXCEPT
           !.pc = "publish",
           !.ready = IF outcome = "ok" THEN @ \cup PolledIds(w) ELSE @,
           !.calls = Append(@, Call("publishInstagramMediaContainer",
                                    wfs[w].post, 0, FALSE,
                                    << ItemContainerId(w, 1) >>))])
    /\ UNCHANGED << poll, selectedInstagramAccounts, selectedYoutubeChannels, files,
                    instagramAccountIdToProcessingState,
                    youtubeChannelIdToProcessingState, youtubeTitle, posts >>

SinglePollReturn(w, outcome) ==
    /\ IsWorkflow(w, "instagram", FALSE, "poll")
    /\ IF outcome = "ok"
       THEN /\ wfs' = SetWf(w, [wfs[w] EXCEPT
                  !.pc = "publish",
                  !.ready = @ \cup PolledIds(w),
                  !.calls = Append(@, Call("publishInstagramMediaContainer",
                                           wfs[w].post, 0, FALSE,
                                           << ItemContainerId(w, 1) >>))])
            /\ UNCHANGED instagramAccountIdToProcessingState
       ELSE CatchError(w, "poll")
    /\ UNCHANGED << poll, selectedInstagramAccounts, selectedYoutubeChannels, files,
                    youtubeChannelIdToProcessingState, youtubeTitle, posts >>

\* Single path: publishInstagramMediaContainer settles.
SinglePublishReturn(w, outcome) ==
    /\ IsWorkflow(w, "instagram", FALSE, "publish")
    /\ IF outcome = "ok"
       THEN \E m \in MediaIds : SaveAndMarkPosted(w, m)
       ELSE Unhandled(w, "publish")
    /\ UNCHANGED << poll, selectedInstagramAccounts, selectedYoutubeChannels, files,
                    youtubeChannelIdToProcessingState, youtubeTitle, posts >>

\* Either path: the dropped saveInstagramId promise settles.
PersistReturn(w, outcome) ==
    /\ w \in DOMAIN wfs
    /\ wfs[w].pc = "persist"
    /\ IF outcome = "ok"
       THEN wfs' = SetWf(w, [wfs[w] EXCEPT !.pc = "done"])
       ELSE wfs' = SetWf(w, [wfs[w] EXCEPT !.pc = "done",
                                           !.failed = "persist",
                                           !.unhandled = TRUE])
    /\ UNCHANGED << poll, selectedInstagramAccounts, selectedYoutubeChannels, files,
                    instagramAccountIdToProcessingState,
                    youtubeChannelIdToProcessingState, youtubeTitle, posts >>

\* Carousel path: one createInstagramContainer of the Promise.all settles.
\* The first rejection rejects the Promise.all; answers that arrive after
\* the chain has ended are dropped by it.
CarouselCreateReturn(w, i, outcome) ==
    /\ IsWorkflow(w, "instagram", TRUE, "create")
    /\ i \in DOMAIN wfs[w].creates
    /\ wfs[w].creates[i] = "pending"
    /\ LET cs == [wfs[w].creates EXCEPT ![i] = "ok"] IN
       IF outcome # "ok"
       THEN CatchError(w, "create")
       ELSE IF \A j \in DOMAIN cs : cs[j] = "ok"
       THEN /\ wfs' = SetWf(w, [wfs[w] EXCEPT
                  !.pc = "pollItems",
                  !.creates = cs,
                  !.order = Append(@, i),
                  !.calls = Append(@, Call("checkInstagramContainerStatus",
                                           wfs[w].post, 0, FALSE,
                                           ItemContainerIds(w)))])
            /\ UNCHANGED instagramAccountIdToProcessingState
       ELSE /\ wfs' = SetWf(w, [wfs[w] EXCEPT !.creates = cs,
                                              !.order = Append(@, i)])
            /\ UNCHANGED instagramAccountIdToProcessingState
    /\ UNCHANGED << poll, selectedInstagramAccounts, selectedYoutubeChannels, files,
                    youtubeChannelIdToProcessingState, youtubeTitle, posts >>

\* Carousel path: the status check of the item containers settles.
CarouselItemsPollReturn(w, outcome) ==
    /\ IsWorkflow(w, "instagram", TRUE, "pollItems")
    /\ IF outcome = "ok"
       THEN /\ wfs' = SetWf(w, [wfs[w] EXCEPT
                  !.pc = "aggregate",
                  !.ready = @ \cup PolledIds(w),
                  !.calls = Append(@, Call("createInstagramCarouselContainer",
                                           wfs[w].post, 0, FALSE,
                                           ItemContainerIds(w)))])
            /\ UNCHANGED instagramAccountIdToProcessingState
       ELSE CatchError(w, "poll")
    /\ UNCHANGED << poll, selectedInstagramAccounts, selectedYoutubeChannels, files,
                    youtubeChannelIdToProcessingState, youtubeTitle, posts >>

\* Carousel path: createInstagramCarouselContainer settles.
CarouselAggregateReturn(w, outcome) ==
    /\ IsWorkflow(w, "instagram", TRUE, "aggregate")
    /\ IF outcome = "ok"
       THEN /\ wfs' = SetWf(w, [wfs[w] EXCEPT
                  !.pc = "pollAggregate",
                  !.calls = Append(@, Call("checkInstagramContainerStatus",
                                           wfs[w].post, 0, FALSE,
                                           << AggregateContainerId(w) >>))])
            /\ UNCHANGED instagramAccountIdToProcessingState
       ELSE CatchError(w, "aggregate")
    /\ UNCHANGED << poll, selectedInstagramAccounts, selectedYoutubeChannels, files,
                    youtubeChannelIdToProcessingState, youtubeTitle, posts >>

\* Carousel path: the status check of the aggregate container settles.
CarouselAggregatePollReturn(w, outcome) ==
    /\ IsWorkflow(w, "instagram", TRUE, "pollAggregate")
    /\ IF outcome = "ok"
       THEN /\ wfs' = SetWf(w, [wfs[w] EXCEPT
                  !.pc = "publish",
                  !.ready = @ \cup PolledIds(w),
                  !.calls = Append(@, Call("publishInstagramMediaContainer",
                                           wfs[w].post, 0, FALSE,
                                           << AggregateContainerId(w) >>))])
            /\ UNCHANGED instagramAccountIdToProcessingState
       ELSE CatchError(w, "poll")
    /\ UNCHANGED << poll, selectedInstagramAccounts, selectedYoutubeChannels, files,
                    youtubeChannelIdToProcessingState, youtubeTitle, posts >>

\* Carousel path: publishInstagramMediaContainer settles; every promise of
\* this chain is returned, so a rejection reaches the .catch.
CarouselPublishReturn(w, outcome) ==
    /\ IsWorkflow(w, "instagram", TRUE, "publish")
    /\ IF outcome = "ok"
       THEN \E m \in MediaIds : SaveAndMarkPosted(w, m)
       ELSE CatchError(w, "publish")
    /\ UNCHANGED << poll, selectedInstagramAccounts, selectedYoutubeChannels, files,
                    youtubeChannelIdToProcessingState, youtubeTitle, posts >>

\* -------------------------------------------------------- YouTube workflow
\* The fetch of /api/youtube/post settles: a response is inspected by the
\* .then callback, a rejection has no handler.
YoutubeFetchReturn(w, outcome) ==
    /\ IsWorkflow(w, "youtube", FALSE, "fetch")
    /\ IF outcome = "reject"
       THEN /\ wfs' = SetWf(w, [wfs[w] EXCEPT !.pc = "done",
                                              !.failed = "reject",
                                              !.unhandled = TRUE])
            /\ UNCHANGED youtubeChannelIdToProcessingState
       ELSE /\ youtubeChannelIdToProcessingState' =
                   SetProcessingState(youtubeChannelIdToProcessingState,
                                      wfs[w].dest,
                                      IF outcome = "ok" THEN "posted"
                                                        ELSE "error")
            /\ wfs' = SetWf(w, [wfs[w] EXCEPT
                                   !.pc = "done",
                                   !.failed = IF outcome = "ok" THEN "none"
                                                                ELSE "notOk"])
    /\ UNCHANGED << poll, selectedInstagramAccounts, selectedYoutubeChannels, files,
                    instagramAccountIdToProcessingState, youtubeTitle, posts >>

\* --------------------------------------------------------------- behaviour
MaxWorkflows == MaxSubmits * MaxSelected

UserStep ==
    \/ \E account \in InstagramAccounts : ToggleInstagramAccount(account)
    \/ \E channel \in YoutubeChannels : ToggleYoutubeChannel(channel)
    \/ \E entry \in FileEntries : AddFile(entry)
    \/ \E i \in 1..MaxFiles : RemoveFile(i)
    \/ \E len \in TitleLengths : SetYoutubeTitle(len)
    \/ Submit

UploadStep ==
    \E p \in 1..MaxSubmits :
        \/ \E o \in Outcomes : CreatePostReturn(p, o)
        \/ \E i \in 1..MaxFiles, o \in StorageOutcomes :
               UploadStorageReturn(p, i, o)
        \/ \E i \in 1..MaxFiles, o \in Outcomes : UploadInsertReturn(p, i, o)

WorkflowStep ==
    \E w \in 1..MaxWorkflows :
        \/ \E o \in Outcomes : SingleCreateReturn(w, o)
        \/ \E o \in PollOutcomes : SinglePollReturn(w, o)
        \/ \E o \in Outcomes : SinglePublishReturn(w, o)
        \/ \E o \in Outcomes : PersistReturn(w, o)
        \/ \E i \in 1..MaxFiles, o \in Outcomes : CarouselCreateReturn(w, i, o)
        \/ \E o \in PollOutcomes : CarouselItemsPollReturn(w, o)
        \/ \E o \in Outcomes : CarouselAggregateReturn(w, o)
        \/ \E o \in PollOutcomes : CarouselAggregatePollReturn(w, o)
        \/ \E o \in Outcomes : CarouselPublishReturn(w, o)
        \/ \E o \in FetchOutcomes : YoutubeFetchReturn(w, o)

Next == UserStep \/ UploadStep \/ WorkflowStep

Spec == Init /\ [][Next]_vars

\* ---------------------------------------------------------- status poller
\* awaitReady(containerIds, pollIntervalMs, maxAttempts), the primitive
\* behind checkInstagramContainerStatus, on its own: one call, its rounds
\* and its result.
ContainerIdSets == (SUBSET (1..MaxPolled)) \ {{}}

ContainerStatuses == {"ready", "pending", "error"}

\* Variant that reports an error status only once the budget is used up.
RoundResultErrorAtEnd(statuses, round, maxAttempts) ==
    IF \A c \in DOMAIN statuses : statuses[c] = "ready" THEN "Ok"
    ELSE IF round < maxAttempts THEN "running"
    ELSE IF \E c \in DOMAIN statuses : statuses[c] = "error"
    THEN "RemoteError"
    ELSE "TimedOut"

\* Variant whose budget check is off by one.
RoundResultOneMore(statuses, round, maxAttempts) ==
    IF \E c \in DOMAIN statuses : statuses[c] = "error" THEN "RemoteError"
    ELSE IF \A c \in DOMAIN statuses : statuses[c] = "ready" THEN "Ok"
    ELSE IF round > maxAttempts THEN "TimedOut"
    ELSE "running"

\* What a round that read these statuses decides: an error status of any
\* id ends the call with RemoteError, all ready ends it with Ok, the last
\* round of the budget ends it with TimedOut, otherwise another round
\* follows.
RoundResult(statuses, round, maxAttempts) ==
    IF \E c \in DOMAIN statuses : statuses[c] = "error" THEN "RemoteError"
    ELSE IF \A c \in DOMAIN statuses : statuses[c] = "ready" THEN "Ok"
    ELSE IF round >= maxAttempts THEN "TimedOut"
    ELSE "running"

PollInit ==
    /\ selectedInstagramAccounts = << >>
    /\ selectedYoutubeChannels = << >>
    /\ files = << >>
    /\ instagramAccountIdToProcessingState = EmptyMap
    /\ youtubeChannelIdToProcessingState = EmptyMap
    /\ youtubeTitle = 0
    /\ posts = << >>
    /\ wfs = << >>
    /\ \E ids \in ContainerIdSets, n \in 1..MaxAttempts :
          poll = [ids |-> ids, maxAttempts |-> n, round |-> 0,
                  statuses |-> << >>, result |-> "running"]

\* One round: the status endpoint answers for every id of the set.
PollRound(statuses) ==
    /\ poll.result = "running"
    /\ poll' = [poll EXCEPT
                  !.round = @ + 1,
                  !.statuses = Append(@, statuses),
                  !.result = RoundResult(statuses, poll.round + 1,
                                         poll.maxAttempts)]
    /\ UNCHANGED << selectedInstagramAccounts, selectedYoutubeChannels, files,
                    instagramAccountIdToProcessingState,
                    youtubeChannelIdToProcessingState, youtubeTitle, posts,
                    wfs >>

PollNext == \E statuses \in [poll.ids -> ContainerStatuses] : PollRound(statuses)

PollSpec == PollInit /\ [][PollNext]_vars

\* ------------------------------------------------- vocabulary of the claims
Lookup(map, key) == IF key \in DOMAIN map THEN map[key] ELSE "absent"

\* The entry a workflow's destination has in the mapping of its platform.
StateOf(w) ==
    IF wfs[w].platform = "instagram"
    THEN Lookup(instagramAccountIdToProcessingState, wfs[w].dest)
    ELSE Lookup(youtubeChannelIdToProcessingState, wfs[w].dest)

Done(w) == wfs[w].pc = "done"

WorkflowsOf(p) == { w \in DOMAIN wfs : wfs[w].post = p }

\* A post whose workflows were launched and have all settled.
Settled(p) ==
    /\ posts[p].pc = "launched"
    /\ \A w \in WorkflowsOf(p) : Done(w)

\* The destinations whose workflow took part in the step: those launched by
\* it and those whose chain advanced in it.
SteppedDests(platform) ==
    { wfs'[w].dest :
        w \in { v \in DOMAIN wfs' :
                  /\ wfs'[v].platform = platform
                  /\ (v \notin DOMAIN wfs \/ wfs'[v] # wfs[v]) } }

\* The entries of a mapping that the step changed or removed.
ChangedKeys(map, mapNext) ==
    { k \in DOMAIN map : k \notin DOMAIN mapNext \/ mapNext[k] # map[k] }

\* All remote calls of workflow w, up to and including the publish, succeeded.
Published(w) ==
    /\ wfs[w].pc \in {"persist", "done"}
    /\ wfs[w].failed \in {"none", "persist"}

\* The calls of a workflow without the trailing saveInstagramId.
CallsBeforePersist(w) ==
    SelectSeq(wfs[w].calls, LAMBDA c : c.op # "saveInstagramId")

\* ------------------------------------------------------------------ claims

\* C1: a write of one destination's processing state leaves the entries of
\* all other destinations as they were: an entry changes or goes only in a
\* step of that destination's own workflow.
C1_WriteSetsOnlyOwnKey ==
    [][ /\ ChangedKeys(instagramAccountIdToProcessingState,
                       instagramAccountIdToProcessingState')
            \subseteq SteppedDests("instagram")
        /\ ChangedKeys(youtubeChannelIdToProcessingState,
                       youtubeChannelIdToProcessingState')
            \subseteq SteppedDests("youtube") ]_vars

\* C2: once all workflows of a publish attempt have settled, every selected
\* destination has its entry in the state mapping of its platform.
C2_OneEntryPerDestination ==
    \A p \in DOMAIN posts :
        Settled(p) =>
            /\ \A j \in DOMAIN posts[p].accounts :
                   posts[p].accounts[j].instagram_business_account_id
                       \in DOMAIN instagramAccountIdToProcessingState
            /\ \A j \in DOMAIN posts[p].channels :
                   posts[p].channels[j].id
                       \in DOMAIN youtubeChannelIdToProcessingState

\* C3: when every remote call of a started workflow has been answered, its
\* destination is posted or error, never still processing (the state the
\* claim says is eventually reached and kept).
C3_SettledIsPostedOrError ==
    \A w \in DOMAIN wfs :
        Done(w) => StateOf(w) \in {"posted", "error"}

\* C4: the step in which a call of an Instagram workflow fails sets that
\* destination to error, issues no further remote call, ends the workflow
\* and leaves no unhandled rejection.
C4_FailureSetsErrorAndStops ==
    [][ \A w \in DOMAIN wfs :
            ( /\ wfs[w].platform = "instagram"
              /\ wfs[w].failed = "none"
              /\ wfs'[w].failed # "none" )
            => /\ Lookup(instagramAccountIdToProcessingState', wfs[w].dest)
                    = "error"
               /\ wfs'[w].calls = wfs[w].calls
               /\ wfs'[w].pc = "done"
               /\ ~wfs'[w].unhandled ]_vars

\* C5: with two different destinations A and B of one attempt, A failed and
\* all calls of B succeeded, B is posted once both have settled.
C5_SiblingUnaffectedByFailure ==
    \A a, b \in DOMAIN wfs :
        ( /\ wfs[a].post = wfs[b].post
          /\ << wfs[a].platform, wfs[a].dest >>
                 # << wfs[b].platform, wfs[b].dest >>
          /\ Done(a) /\ Done(b)
          /\ wfs[a].failed # "none"
          /\ wfs[b].failed = "none" )
        => StateOf(b) = "posted"

Monotonic(map, mapNext) ==
    \A k \in DOMAIN map :
        /\ k \in DOMAIN mapNext
        /\ map[k] \in {"posted", "error"} => mapNext[k] = map[k]

\* C6: an entry only moves processing -> posted or processing -> error: a
\* posted or error entry never changes, and no entry ever disappears.
C6_StateIsMonotonic ==
    [][ /\ Monotonic(instagramAccountIdToProcessingState,
                     instagramAccountIdToProcessingState')
        /\ Monotonic(youtubeChannelIdToProcessingState,
                     youtubeChannelIdToProcessingState') ]_vars

\* C7: the step in which the YouTube call settles sets the channel to posted
\* when the call succeeded and to error on every failure, a non-ok response
\* as well as a rejected request.
C7_YoutubePostedOrError ==
    [][ \A w \in DOMAIN wfs :
            ( /\ wfs[w].platform = "youtube"
              /\ wfs[w].pc = "fetch"
              /\ wfs'[w].pc = "done" )
            => Lookup(youtubeChannelIdToProcessingState', wfs[w].dest)
                   = IF wfs'[w].failed = "none" THEN "posted"
                                                ELSE "error" ]_vars

\* C8: one Instagram account and one YouTube channel, one file, the YouTube
\* call failed and every Instagram call succeeded: after both have settled
\* the account is posted and the channel is error.
C8_InstagramPostedYoutubeError ==
    \A p \in DOMAIN posts :
        ( /\ Len(posts[p].files) = 1
          /\ Len(posts[p].accounts) = 1
          /\ Len(posts[p].channels) = 1
          /\ Settled(p)
          /\ \A w \in WorkflowsOf(p) :
                 (wfs[w].failed # "none") = (wfs[w].platform = "youtube") )
        => \A w \in WorkflowsOf(p) :
               StateOf(w) = IF wfs[w].platform = "instagram"
                            THEN "posted" ELSE "error"

\* The calls a carousel workflow of n items makes up to the publish.
ExpectedCarouselCalls(w, p, n) ==
    LET ids == [i \in 1..n |-> ItemContainerId(w, i)] IN
    [i \in 1..n |-> CreateCall(p, i - 1, posts[p].files[i], TRUE)]
    \o << Call("checkInstagramContainerStatus", p, 0, FALSE, ids),
          Call("createInstagramCarouselContainer", p, 0, FALSE, ids),
          Call("checkInstagramContainerStatus", p, 0, FALSE,
               << AggregateContainerId(w) >>),
          Call("publishInstagramMediaContainer", p, 0, FALSE,
               << AggregateContainerId(w) >>) >>

\* The calls a single-item workflow makes up to the publish.
ExpectedSingleCalls(w, p) ==
    << CreateCall(p, 0, posts[p].files[1], FALSE),
       Call("checkInstagramContainerStatus", p, 0, FALSE,
            << ItemContainerId(w, 1) >>),
       Call("publishInstagramMediaContainer", p, 0, FALSE,
            << ItemContainerId(w, 1) >>) >>

\* The step in which the publish of workflow w succeeds.
PublishSucceeds(w) ==
    /\ w \in DOMAIN wfs
    /\ wfs[w].pc = "publish"
    /\ wfs'[w].pc = "persist"

IdsOf(c) == { c.ids[k] : k \in DOMAIN c.ids }

\* C11: within one Instagram workflow a publish is issued only for a
\* container that a status check has reported ready, and the aggregate
\* container is created only from the item containers of all files of the
\* post, each reported ready by a status check.
C11_StepOnlyAfterPrecedingSucceeded ==
    \A w \in DOMAIN wfs :
        \A k \in DOMAIN wfs[w].calls :
            LET c == wfs[w].calls[k] IN
            /\ c.op = "publishInstagramMediaContainer" =>
                   /\ IdsOf(c) # {}
                   /\ IdsOf(c) \subseteq wfs[w].ready
            /\ c.op = "createInstagramCarouselContainer" =>
                   /\ IdsOf(c) \subseteq wfs[w].ready
                   /\ IdsOf(c) = { ItemContainerId(w, i) :
                                     i \in 1..Len(posts[wfs[w].post].files) }

\* C11 witness: a carousel workflow has created its aggregate container and
\* issued the publish of it.
C11_Witness ==
    \E w \in DOMAIN wfs :
        /\ wfs[w].carousel
        /\ \E k \in DOMAIN wfs[w].calls :
               wfs[w].calls[k].op = "createInstagramCarouselContainer"
        /\ \E k \in DOMAIN wfs[w].calls :
               wfs[w].calls[k].op = "publishInstagramMediaContainer"

\* The account has been written "posted" by a workflow whose saveInstagramId
\* call has been answered with success.
Persisted(dest) ==
    \E w \in DOMAIN wfs :
        /\ wfs[w].platform = "instagram"
        /\ wfs[w].dest = dest
        /\ wfs[w].pc = "done"
        /\ wfs[w].failed = "none"

\* C12: an Instagram account is posted only when the persist of its media id
\* has completed with success.
C12_PostedOnlyAfterPersist ==
    \A d \in DOMAIN instagramAccountIdToProcessingState :
        instagramAccountIdToProcessingState[d] = "posted" => Persisted(d)

\* The saveInstagramId calls of a workflow.
SaveCalls(w) ==
    SelectSeq(wfs[w].calls, LAMBDA c : c.op = "saveInstagramId")

SomeWorkflowStarted ==
    \/ wfs # << >>
    \/ \E d \in DOMAIN instagramAccountIdToProcessingState :
          instagramAccountIdToProcessingState[d] = "processing"
    \/ \E d \in DOMAIN youtubeChannelIdToProcessingState :
          youtubeChannelIdToProcessingState[d] = "processing"

\* C14: no destination workflow starts before every upload has completed:
\* whenever a destination is marked processing or a container create has
\* been issued, all N uploads of the attempt (storage write and metadata
\* insert) have succeeded.
C14_NoWorkflowBeforeAllUploads ==
    /\ SomeWorkflowStarted =>
          \E p \in DOMAIN posts : posts[p].pc = "launched"
    /\ \A p \in DOMAIN posts :
          posts[p].pc = "launched" =>
            /\ Len(posts[p].uploads) = Len(posts[p].files)
            /\ \A i \in DOMAIN posts[p].uploads :
                  posts[p].uploads[i] = "done"
    /\ \A w \in DOMAIN wfs :
          LET p == wfs[w].post IN
          /\ Len(posts[p].uploads) = Len(posts[p].files)
          /\ \A i \in DOMAIN posts[p].uploads : posts[p].uploads[i] = "done"

\* A carousel attempt of two files whose workflow has issued a create.
C14_Witness ==
    \E w \in DOMAIN wfs :
      /\ Len(posts[wfs[w].post].files) = 2
      /\ \E k \in DOMAIN wfs[w].calls :
            wfs[w].calls[k].op = "createInstagramContainer"
      /\ instagramAccountIdToProcessingState # EmptyMap

\* Some upload of post p has thrown.
UploadFailed(p) ==
    \E i \in DOMAIN posts[p].uploads : posts[p].uploads[i] = "failed"

\* C15: when the upload of any one media item fails, the attempt is
\* aborted: it never launches, so it marks no destination processing and
\* has no workflow (no container create, no YouTube call).
C15_UploadFailureAborts ==
    \A p \in DOMAIN posts :
        UploadFailed(p) =>
          /\ posts[p].pc = "done"
          /\ WorkflowsOf(p) = {}
          /\ Len(posts) = 1 =>
                /\ instagramAccountIdToProcessingState = EmptyMap
                /\ youtubeChannelIdToProcessingState = EmptyMap
                /\ wfs = << >>

\* C15 witness: in an attempt of two files the first upload has failed and
\* the second one has completed after that.
C15_Witness ==
    \E p \in DOMAIN posts :
      /\ Len(posts[p].uploads) = 2
      /\ posts[p].uploads[1] = "failed"
      /\ posts[p].uploads[2] = "done"
      /\ posts[p].accounts # << >>

\* C16: an upload failure is propagated to the caller of the publish
\* operation: whenever an upload of an attempt has failed, the chain of
\* processSocialMediaPost is rejected and the rejection is not dropped.
C16_UploadFailurePropagates ==
    \A p \in DOMAIN posts :
        UploadFailed(p) =>
          /\ posts[p].result = "rejected"
          /\ ~posts[p].unhandled

\* The YouTube workflows of post p for channel id c.
YoutubeWorkflowsFor(p, c) ==
    { w \in WorkflowsOf(p) : wfs[w].platform = "youtube" /\ wfs[w].dest = c }

\* C17: a publish attempt that has reached its destinations has marked
\* every selected YouTube channel and launched its workflow, for one file
\* as for several.
C17_EveryYoutubeChannelLaunched ==
    \A p \in DOMAIN posts :
        posts[p].pc = "launched" =>
          \A k \in DOMAIN posts[p].channels :
              /\ YoutubeWorkflowsFor(p, posts[p].channels[k].id) # {}
              /\ \A w \in YoutubeWorkflowsFor(p, posts[p].channels[k].id) :
                    wfs[w].stateAtStart = "processing"

\* The remote calls that create a container.
IsCreate(c) ==
    c.op \in {"createInstagramContainer", "createInstagramCarouselContainer"}

\* Every Instagram workflow found its destination set to processing when
\* its first remote call, the container create, was issued.
FirstCallFoundProcessing ==
    \A w \in DOMAIN wfs :
        wfs[w].platform = "instagram" =>
          /\ wfs[w].calls # << >>
          /\ wfs[w].calls[1].op = "createInstagramContainer"
          /\ wfs[w].stateAtStart = "processing"

\* A step in which workflow w issues a container create later than its
\* first call.
IssuesLaterCreate(w) ==
    /\ w \in DOMAIN wfs
    /\ Len(wfs'[w].calls) > Len(wfs[w].calls)
    /\ IsCreate(wfs'[w].calls[Len(wfs'[w].calls)])

\* C18: in both paths an Instagram destination is set to processing before
\* the first remote call of its workflow is issued, and no container
\* create is issued for a destination whose state entry is absent.
C18_ProcessingBeforeEveryCreate ==
    /\ []FirstCallFoundProcessing
    /\ [][\A w \in DOMAIN wfs' :
            (wfs'[w].platform = "instagram" /\ IssuesLaterCreate(w)) =>
              Lookup(instagramAccountIdToProcessingState', wfs'[w].dest)
                # "absent"]_vars

\* The Instagram workflows of post p for account id a.
InstagramWorkflowsFor(p, a) ==
    { w \in WorkflowsOf(p) :
        wfs[w].platform = "instagram" /\ wfs[w].dest = a }

\* Every selected destination of post p has a workflow that has issued its
\* first remote call.
DestinationsStarted(p) ==
    /\ \A k \in DOMAIN posts[p].accounts :
          InstagramWorkflowsFor(
              p, posts[p].accounts[k].instagram_business_account_id) # {}
    /\ \A k \in DOMAIN posts[p].channels :
          YoutubeWorkflowsFor(p, posts[p].channels[k].id) # {}
    /\ \A w \in WorkflowsOf(p) : wfs[w].calls # << >>

\* A workflow that has not ended has a remote call in flight.
CallInFlight(w) ==
    wfs[w].pc \in {"create", "poll", "pollItems", "aggregate",
                   "pollAggregate", "publish", "persist", "fetch"}

\* C19: the first remote call of every selected destination is issued in
\* the step that launches the attempt, before any remote call has
\* returned; afterwards a step changes one workflow only, and a workflow
\* that has not ended keeps a call in flight whatever its siblings did.
C19_DestinationsStartConcurrently ==
    /\ [](\A p \in DOMAIN posts :
            posts[p].pc = "launched" => DestinationsStarted(p))
    /\ [](\A w \in DOMAIN wfs : Done(w) \/ CallInFlight(w))
    /\ [][\A w \in DOMAIN wfs' :
            IF w \in DOMAIN wfs
            THEN wfs'[w] # wfs[w] =>
                   \A v \in DOMAIN wfs \ {w} : wfs'[v] = wfs[v]
            ELSE wfs'[w].pc \in {"create", "fetch"}]_vars

\* The createInstagramCarouselContainer calls of a workflow.
AggregateCalls(w) ==
    SelectSeq(wfs[w].calls,
              LAMBDA c : c.op = "createInstagramCarouselContainer")

\* C20: the list of uploaded (path, mediaType) pairs and the list of item
\* container ids handed to the aggregate-container create are in the
\* order of the selected files: position i holds the path uploaded under
\* index i - 1 with the type of file i, the i-th create is for that pair,
\* and the i-th id is the container of the i-th create, whatever the order
\* in which uploads and creates completed.
C20_ListsInSelectionOrder ==
    /\ \A p \in DOMAIN posts :
          (posts[p].pc = "launched" /\ Len(posts[p].files) > 1) =>
            /\ Len(posts[p].filePaths) = Len(posts[p].files)
            /\ \A i \in DOMAIN posts[p].files :
                  /\ posts[p].filePaths[i].filePath = i - 1
                  /\ posts[p].filePaths[i].postType =
                       PostType(posts[p].files[i])
    /\ \A w \in DOMAIN wfs :
          wfs[w].carousel =>
            LET fs == posts[wfs[w].post].files IN
            /\ \A i \in DOMAIN fs :
                  /\ wfs[w].calls[i].op = "createInstagramContainer"
                  /\ wfs[w].calls[i].item = i - 1
                  /\ wfs[w].calls[i].postType = PostType(fs[i])
            /\ \A k \in DOMAIN AggregateCalls(w) :
                  /\ Len(AggregateCalls(w)[k].ids) = Len(fs)
                  /\ \A i \in DOMAIN fs :
                        AggregateCalls(w)[k].ids[i] = ItemContainerId(w, i)

\* C20 witness: the second upload and the second create completed before
\* the first ones, the two files differ in type, and the aggregate create
\* has been issued.
C20_Witness ==
    \E w \in DOMAIN wfs :
      /\ wfs[w].carousel
      /\ posts[wfs[w].post].uploadOrder = << 2, 1 >>
      /\ wfs[w].order = << 2, 1 >>
      /\ PostType(posts[wfs[w].post].files[1])
           # PostType(posts[wfs[w].post].files[2])
      /\ Len(AggregateCalls(w)) = 1

\* Some id reported an explicit error status in round k of the poll.
ErrorInRound(k) ==
    \E c \in DOMAIN poll.statuses[k] : poll.statuses[k][c] = "error"

\* C21: a round in which any one id reports an error status is the last
\* round of the call and the call returns RemoteError, also when other ids
\* are still pending and attempts remain; RemoteError is returned for no
\* other reason.
C21_ErrorStatusReturnsAtOnce ==
    /\ \A k \in DOMAIN poll.statuses :
          ErrorInRound(k) =>
            /\ k = Len(poll.statuses)
            /\ k = poll.round
            /\ poll.result = "RemoteError"
    /\ poll.result = "RemoteError" =>
          (poll.statuses # << >> /\ ErrorInRound(Len(poll.statuses)))

\* C21 witness: the first of three allowed rounds found one id in error
\* and another one pending, and the call has returned RemoteError.
C21_Witness ==
    /\ poll.result = "RemoteError"
    /\ poll.round = 1
    /\ poll.maxAttempts = 3
    /\ \E c, d \in poll.ids :
          /\ poll.statuses[1][c] = "error"
          /\ poll.statuses[1][d] = "pending"

\* Every id reported ready in round k of the poll.
AllReadyInRound(k) ==
    \A c \in DOMAIN poll.statuses[k] : poll.statuses[k][c] = "ready"

\* C22: a call never performs more rounds than maxAttempts and has
\* returned once the budget is used up; it returns TimedOut exactly when
\* the last round of the budget found neither every id ready nor an error.
C22_PollEndsWithinBudget ==
    poll.result # "none" =>
      /\ poll.round <= poll.maxAttempts
      /\ Len(poll.statuses) = poll.round
      /\ poll.round = poll.maxAttempts => poll.result # "running"
      /\ poll.result = "TimedOut" <=>
            /\ poll.round = poll.maxAttempts
            /\ ~AllReadyInRound(poll.round)
            /\ ~ErrorInRound(poll.round)

\* C22 witness: three rounds of a budget of three left an id pending and
\* the call has returned TimedOut.
C22_Witness ==
    /\ poll.result = "TimedOut"
    /\ poll.maxAttempts = 3
    /\ poll.round = 3
    /\ \E c \in poll.ids : poll.statuses[3][c] = "pending"

\* C23: the selected destinations never hold two entries with the same
\* destination id, and one attempt has at most one workflow per
\* destination id.
C23_NoDuplicateDestination ==
    /\ \A j, k \in DOMAIN selectedInstagramAccounts :
          selectedInstagramAccounts[j].instagram_business_account_id
            = selectedInstagramAccounts[k].instagram_business_account_id
          => j = k
    /\ \A j, k \in DOMAIN selectedYoutubeChannels :
          selectedYoutubeChannels[j].id = selectedYoutubeChannels[k].id
          => j = k
    /\ \A v, w \in DOMAIN wfs :
          (/\ wfs[v].post = wfs[w].post
           /\ wfs[v].platform = wfs[w].platform
           /\ wfs[v].dest = wfs[w].dest) => v = w

\* C24: no attempt with a YouTube channel selected is accepted, and no
\* YouTube workflow is started, with a title that is empty or longer than
\* 100 characters.
C24_YoutubeTitleValid ==
    /\ \A p \in DOMAIN posts :
          posts[p].channels # << >> =>
            (posts[p].title >= 1 /\ posts[p].title <= 100)
    /\ \A w \in DOMAIN wfs :
          wfs[w].platform = "youtube" =>
            (posts[wfs[w].post].title >= 1 /\ posts[wfs[w].post].title <= 100)

\* C24 witness: a YouTube workflow was started after more than 100
\* characters had been entered as the title.
C24_Witness ==
    \E w \in DOMAIN wfs :
      /\ wfs[w].platform = "youtube"
      /\ posts[wfs[w].post].title = 100

\* The remote operations of a workflow other than the status polls.
OnceOnlyOps ==
    {"createInstagramContainer", "createInstagramCarouselContainer",
     "publishInstagramMediaContainer", "saveInstagramId", "fetch"}

\* The places (workflow, position) where the attempt of workflow w has
\* issued call c for the destination of w.
Issues(w, c) ==
    { vk \in (DOMAIN wfs) \X (1..(MaxFiles + 5)) :
        /\ wfs[vk[1]].post = wfs[w].post
        /\ wfs[vk[1]].platform = wfs[w].platform
        /\ wfs[vk[1]].dest = wfs[w].dest
        /\ vk[2] \in DOMAIN wfs[vk[1]].calls
        /\ wfs[vk[1]].calls[vk[2]].op = c.op
        /\ wfs[vk[1]].calls[vk[2]].item = c.item }

\* C25: within one attempt, for each destination every container create
\* (per item), aggregate create, publish, persist and YouTube call is
\* issued at most once, also after a failure.
C25_NoCallIssuedTwice ==
    \A w \in DOMAIN wfs :
      \A k \in DOMAIN wfs[w].calls :
        wfs[w].calls[k].op \in OnceOnlyOps =>
          Cardinality(Issues(w, wfs[w].calls[k])) = 1

\* The remote calls that are handed container ids.
TakesContainers(c) ==
    c.op \in {"checkInstagramContainerStatus",
              "createInstagramCarouselContainer",
              "publishInstagramMediaContainer"}

\* Container id is one that a create call of workflow w has returned
\* before w issued its k-th call: an item container of a create of w that
\* fulfilled, or the aggregate container of the aggregate create of w.
OwnContainer(w, k, id) ==
    /\ id[1] = w
    /\ IF id[2] = 0
       THEN \E j \in 1..(k - 1) :
              wfs[w].calls[j].op = "createInstagramCarouselContainer"
       ELSE /\ id[2] \in DOMAIN wfs[w].creates
            /\ wfs[w].creates[id[2]] = "ok"
            /\ id[2] < k
            /\ wfs[w].calls[id[2]].op = "createInstagramContainer"

\* C26: the containers a workflow polls, aggregates and publishes are ones
\* its own create calls returned, the first poll and the aggregate create
\* take every item container of the workflow, and no container id occurs
\* in the calls of two workflows.
C26_ContainersNotShared ==
    /\ \A w \in DOMAIN wfs : \A k \in DOMAIN wfs[w].calls :
          TakesContainers(wfs[w].calls[k]) =>
            /\ IdsOf(wfs[w].calls[k]) # {}
            /\ \A id \in IdsOf(wfs[w].calls[k]) : OwnContainer(w, k, id)
            /\ (\E id \in IdsOf(wfs[w].calls[k]) : id[2] # 0) =>
                  Cardinality(IdsOf(wfs[w].calls[k]))
                    = Len(wfs[w].creates)
    /\ \A v, w \in DOMAIN wfs :
          v # w =>
            \A j \in DOMAIN wfs[v].calls, k \in DOMAIN wfs[w].calls :
                IdsOf(wfs[v].calls[j]) \cap IdsOf(wfs[w].calls[k]) = {}

\* C26 witness: of two Instagram destinations of one carousel attempt the
\* second has issued its publish while the first still waits for one of
\* its creates.
C26_Witness ==
    \E a, b \in DOMAIN wfs :
      /\ a < b
      /\ wfs[a].post = wfs[b].post
      /\ wfs[a].dest # wfs[b].dest
      /\ wfs[a].carousel /\ wfs[b].carousel
      /\ wfs[a].pc = "create"
      /\ Len(wfs[a].order) = 1
      /\ \E k \in DOMAIN wfs[b].calls :
            wfs[b].calls[k].op = "publishInstagramMediaContainer"

\* The item indices of the container creates of workflow w.
CreatedFrom(w) ==
    { wfs[w].calls[k].item :
        k \in { j \in DOMAIN wfs[w].calls :
                  wfs[w].calls[j].op = "createInstagramContainer" } }

\* C27: an attempt of N files issues exactly N uploads whatever the
\* number of destinations, the i-th to the path of its user, its post,
\* index i - 1 and the extension of file i, and every Instagram workflow
\* of the attempt creates its containers from those N paths.
C27_UploadedOncePerAttempt ==
    /\ \A p \in DOMAIN posts :
          IF posts[p].result = "fulfilled"
          THEN /\ Len(posts[p].uploadCalls) = Len(posts[p].files)
               /\ Len(posts[p].uploads) = Len(posts[p].files)
               /\ \A i \in DOMAIN posts[p].files :
                     /\ posts[p].uploadCalls[i].userId = UserId
                     /\ posts[p].uploadCalls[i].postId = p
                     /\ posts[p].uploadCalls[i].index = i - 1
                     /\ posts[p].uploadCalls[i].extension =
                          posts[p].files[i].name[Len(posts[p].files[i].name)]
          ELSE posts[p].uploadCalls = << >> /\ posts[p].uploads = << >>
    /\ \A w \in DOMAIN wfs :
          wfs[w].platform = "instagram" =>
            LET calls == posts[wfs[w].post].uploadCalls IN
            /\ CreatedFrom(w) = { calls[i].index : i \in DOMAIN calls }
            /\ Cardinality(CreatedFrom(w)) = Len(posts[wfs[w].post].files)

\* C27 witness: an attempt of two files and two Instagram destinations
\* has launched both workflows.
C27_Witness ==
    \E a, b \in DOMAIN wfs :
      /\ a # b
      /\ wfs[a].post = wfs[b].post
      /\ wfs[a].platform = "instagram"
      /\ wfs[b].platform = "instagram"
      /\ wfs[a].dest # wfs[b].dest
      /\ Len(posts[wfs[a].post].uploadCalls) = 2

\* C28: the upload of a file has failed exactly when its storage write or
\* its metadata insert failed, the insert is issued only after the storage
\* write succeeded, and the path is returned exactly when both succeeded.
C28_UploadStepsInOrder ==
    \A p \in DOMAIN posts : \A i \in DOMAIN posts[p].uploads :
        /\ posts[p].insert[i] # "none" => posts[p].storage[i] = "ok"
        /\ posts[p].uploads[i] = "failed" <=>
              \/ posts[p].storage[i] \in {"error", "nopath"}
              \/ posts[p].insert[i] = "fail"
        /\ posts[p].uploads[i] = "done" <=>
              (posts[p].storage[i] = "ok" /\ posts[p].insert[i] = "ok")
        /\ posts[p].uploads[i] = "insert" <=> posts[p].insert[i] = "pending"
        /\ posts[p].uploads[i] = "storage" <=>
              posts[p].storage[i] = "pending"

\* C28 witness: of two files one failed in its storage write and the other
\* in its metadata insert.
C28_Witness ==
    \E p \in DOMAIN posts :
      /\ Len(posts[p].uploads) = 2
      /\ posts[p].storage[1] = "nopath"
      /\ posts[p].storage[2] = "ok"
      /\ posts[p].insert[2] = "fail"
      /\ posts[p].uploads = << "failed", "failed" >>

\* C29: an empty media selection never reaches a destination workflow: no
\* attempt has zero files, and while no file is selected no step starts an
\* attempt, issues an upload, marks a destination or starts a workflow.
C29_EmptySelectionNeverPublished ==
    /\ [](\A p \in DOMAIN posts :
            /\ Len(posts[p].files) >= 1
            /\ posts[p].uploadCalls # << >> => Len(posts[p].files) >= 1)
    /\ [](\A w \in DOMAIN wfs : Len(posts[wfs[w].post].files) >= 1)
    /\ [][Len(files) = 0 =>
            /\ posts' = posts
            /\ wfs' = wfs
            /\ instagramAccountIdToProcessingState'
                 = instagramAccountIdToProcessingState
            /\ youtubeChannelIdToProcessingState'
                 = youtubeChannelIdToProcessingState]_vars

\* C29 witness: destinations and a title are chosen and no file is: the
\* empty selection alone keeps the submit button disabled.
C29_Witness ==
    /\ Len(files) = 0
    /\ Len(selectedInstagramAccounts) > 0
    /\ Len(selectedYoutubeChannels) > 0
    /\ youtubeTitle = 5
    /\ ButtonDisabled

\* A started workflow that has not yet reached posted or error: one of
\* its remote calls before the final state write is pending.
InFlight(w) == wfs[w].pc \notin {"persist", "done"}

\* C30: while any destination workflow of an attempt is in flight, the
\* submit button is disabled, so no new attempt can be started.
C30_NoSubmitWhileInFlight ==
    (\E w \in DOMAIN wfs : InFlight(w)) => ButtonDisabled

\* An attempt between its submit and the launch of its destinations:
\* createSocialMediaPost or an upload is pending.
InCreationOrUpload(p) == posts[p].pc \in {"createPost", "upload"}

\* C31: while an attempt is in its post-creation or upload phase the
\* submit button is disabled, so a second submit cannot start a second
\* attempt, and at most one attempt is in that phase.
C31_NoSubmitDuringUpload ==
    /\ (\E p \in DOMAIN posts : InCreationOrUpload(p)) => ButtonDisabled
    /\ \A p, q \in DOMAIN posts :
          (InCreationOrUpload(p) /\ InCreationOrUpload(q)) => p = q

\* Attempt p has issued no upload and started no workflow.
NothingIssued(p) ==
    /\ posts[p].uploadCalls = << >>
    /\ posts[p].uploads = << >>
    /\ posts[p].storage = << >>
    /\ posts[p].insert = << >>
    /\ WorkflowsOf(p) = {}
    /\ Len(posts) = 1 =>
          /\ instagramAccountIdToProcessingState = EmptyMap
          /\ youtubeChannelIdToProcessingState = EmptyMap

\* C32: an attempt whose createSocialMediaPost failed (or has not
\* returned) has issued no upload, started no workflow and written no
\* state mapping, and has ended when it failed; every upload and every
\* persist of an attempt carries the post id createSocialMediaPost returned
\* to that attempt.
C32_PostRecordGatesAttempt ==
    /\ \A p \in DOMAIN posts :
          /\ posts[p].result = "rejected" =>
                (NothingIssued(p) /\ posts[p].pc = "done")
          /\ posts[p].result = "pending" =>
                (NothingIssued(p) /\ posts[p].pc = "createPost")
          /\ \A i \in DOMAIN posts[p].uploadCalls :
                posts[p].uploadCalls[i].postId = p
    /\ \A w \in DOMAIN wfs :
          /\ posts[wfs[w].post].result = "fulfilled"
          /\ \A k \in DOMAIN SaveCalls(w) :
                SaveCalls(w)[k].post = wfs[w].post

\* C32 witness: createSocialMediaPost has failed for an attempt of two
\* files with an Instagram account and a YouTube channel selected.
C32_Witness ==
    \E p \in DOMAIN posts :
      /\ posts[p].result = "rejected"
      /\ Len(posts[p].files) = 2
      /\ posts[p].accounts # << >>
      /\ posts[p].channels # << >>

====
